---- MODULE Spec2Model ----
(***************************************************************************)
(* Model of EchoInStone's SpeakerAligner                                   *)
(* (src/EchoInStone/processing/speaker_aligner.py).                        *)
(*                                                                         *)
(* Times are integer ticks: the literal 0.5 (seconds) of the merge test is *)
(* GapTolerance ticks.  overlap_threshold is a rational [num, den].  A     *)
(* text is a sequence of characters.  A dict is modelled by its keys and   *)
(* values (a chunk) or by the sequence of its items in insertion order     *)
(* (speaker_durations).  The outcome of a call is a record: raised tells   *)
(* whether an exception left the call, value is what it returned.          *)
(***************************************************************************)
EXTENDS Integers, Sequences, FiniteSets, TLC

VARIABLES
    aligner,            \* the SpeakerAligner object: its two fields once constructed
    timestamps,         \* align's argument: the list of chunks
    diarization,        \* align's / _find_dominant_speaker's argument: None or the turns, in itertracks order
    start_time,         \* _find_dominant_speaker's argument
    end_time,           \* _find_dominant_speaker's argument
    segments,           \* _merge_consecutive_segments' argument
    current_group,      \* the accumulator of the merge loop (<< >> outside the loop)
    merged_segments,    \* the output list of the merge loop
    idx,                \* position of the merge loop in segments[1:]
    pc,                 \* position of the call in progress
    ret,                \* the outcome of the finished call
    calls,              \* the local variables of each align invocation in progress; the requests
                        \* an HTTP application has answered; the collaborators process invoked
    world,              \* what lies outside the program: environment variables, models, network
    event,              \* the request: the arguments of the handler or of the method called
    app                 \* the EchoInStoneApp object

vars == <<aligner, timestamps, diarization, start_time, end_time, segments,
          current_group, merged_segments, idx, pc, ret, calls, world, event, app>>

\* the variables of the application layer and of concurrent invocations
others == <<calls, world, event, app>>

None == "None"          \* a speaker label that is None
NoTime == 0 - 1         \* a timestamp value that is None

\* Values of the variables a specification does not use
NoCalls == << >>
NoWorld == [present |-> FALSE]
NoEvent ==
    [present |-> FALSE, keys |-> {}, echo_input |-> << >>, output_dir |-> << >>,
     transcription_output |-> << >>]
NoApp == [constructed |-> FALSE]

----------------------------------------------------------------------------
(* Bounds of the model *)

MaxTime == 4            \* times range over 0..MaxTime
MaxTurns == 3           \* turns of a diarization given to _find_dominant_speaker
MaxAlignTurns == 2      \* turns of a diarization given to align
MaxChunks == 2          \* chunks of a list given to align
MaxSegs == 3            \* segments of a list given to _merge_consecutive_segments
MaxRequests == 2        \* requests answered by one HTTP application
MaxParts == 3           \* parts of a URL given to get_downloader

(* The literal 0.5 of the merge test, in ticks; a second is twice that *)
GapTolerance == 3
TicksPerSecond == 2 * GapTolerance

Times == 0..MaxTime
Speakers == {"A", "B"}
Whitespace == {" "}

\* overlap_threshold values: the default 0.5, 0.7, and 1.2 (outside [0,1])
DefaultThreshold == [num |-> 1, den |-> 2]
Thresholds == {DefaultThreshold, [num |-> 7, den |-> 10], [num |-> 6, den |-> 5]}
\* min_segment_duration: the default 1.0
DefaultMinSegmentDuration == TicksPerSecond

Max(a, b) == IF a >= b THEN a ELSE b
Min(a, b) == IF a <= b THEN a ELSE b
Abs(a) == IF a < 0 THEN -a ELSE a

\* A diarization turn: what itertracks(yield_label=True) yields, end > start
Turns == {[start |-> s, end |-> e, speaker |-> sp] :
             s \in Times, e \in Times, sp \in Speakers}
ValidTurns == {t \in Turns : t.end > t.start}

\* Diarizations list their turns in chronological order (by start, then end,
\* then label), each turn once.  Turns of different speakers may overlap; a
\* speaker's own turns do not (they may touch).
TurnKey(t) == (t.start * (MaxTime + 1) + t.end) * 2 + (IF t.speaker = "A" THEN 0 ELSE 1)

MayFollow(d, t) ==
    /\ Len(d) > 0 => TurnKey(d[Len(d)]) < TurnKey(t)
    /\ \A k \in 1..Len(d) : d[k].speaker = t.speaker => d[k].end <= t.start

RECURSIVE Diarizations(_)
Diarizations(n) ==
    IF n = 0 THEN {<< >>}
    ELSE LET shorter == Diarizations(n - 1)
         IN  shorter \cup
             {Append(p[1], p[2]) : p \in
                 {q \in shorter \X ValidTurns :
                     Len(q[1]) = n - 1 /\ MayFollow(q[1], q[2])}}

\* The diarization argument: None, or an object that yields its turns
NoDiarization == [present |-> FALSE, turns |-> << >>]
Diarization(turns) == [present |-> TRUE, turns |-> turns]

\* The diarization objects of up to n turns
DiarizationsUpTo(n) == {Diarization(d) : d \in Diarizations(n)}

----------------------------------------------------------------------------
(* SpeakerAligner.__init__ *)

NewAligner(overlap_threshold, min_segment_duration) ==
    [overlap_threshold |-> overlap_threshold,
     min_segment_duration |-> min_segment_duration]

----------------------------------------------------------------------------
(* SpeakerAligner._find_dominant_speaker *)

\* AddDuration with "=" in place of "+=": the last turn's overlap replaces the sum
AddDurationOverwrite(sd, speaker, d) ==
    IF \E k \in 1..Len(sd) : sd[k][1] = speaker
    THEN [k \in 1..Len(sd) |->
             IF sd[k][1] = speaker THEN <<speaker, d>> ELSE sd[k]]
    ELSE Append(sd, <<speaker, d>>)

\* speaker_durations[speaker] += overlap_duration, on a defaultdict(float)
AddDuration(sd, speaker, d) ==
    IF \E k \in 1..Len(sd) : sd[k][1] = speaker
    THEN [k \in 1..Len(sd) |->
             IF sd[k][1] = speaker THEN <<speaker, sd[k][2] + d>> ELSE sd[k]]
    ELSE Append(sd, <<speaker, d>>)

\* Intersects with ">=" in place of ">": a turn that only touches the span counts
IntersectsOrTouches(intersection_start, intersection_end) ==
    intersection_end >= intersection_start

\* if intersection_end > intersection_start
Intersects(intersection_start, intersection_end) ==
    intersection_end > intersection_start

\* the loop over diarization.itertracks(yield_label=True)
RECURSIVE SpeakerDurations(_, _, _, _)
SpeakerDurations(turns, st, en, sd) ==
    IF turns = << >> THEN sd
    ELSE LET turn == Head(turns)
             intersection_start == Max(st, turn.start)
             intersection_end == Min(en, turn.end)
         IN  SpeakerDurations(Tail(turns), st, en,
                 IF Intersects(intersection_start, intersection_end)
                 THEN AddDuration(sd, turn.speaker, intersection_end - intersection_start)
                 ELSE sd)

\* max(speaker_durations.items(), key=lambda x: x[1]): the first item of maximal value
DominantItem(sd) ==
    LET k == CHOOSE k \in 1..Len(sd) :
                 /\ \A j \in 1..Len(sd) : sd[j][2] <= sd[k][2]
                 /\ \A j \in 1..(k - 1) : sd[j][2] < sd[k][2]
    IN  sd[k]

\* RatioMeetsThreshold with ">" in place of ">="
RatioExceedsThreshold(duration, segment_duration, th) ==
    IF segment_duration > 0
    THEN duration * th.den > th.num * segment_duration
    ELSE duration * th.den < th.num * segment_duration

\* dominant_speaker[1] / segment_duration >= self.overlap_threshold, segment_duration # 0
RatioMeetsThreshold(duration, segment_duration, th) ==
    IF segment_duration > 0
    THEN duration * th.den >= th.num * segment_duration
    ELSE duration * th.den <= th.num * segment_duration

\* The outcome of one call, with whether the division was evaluated and its divisor.
FindDominantSpeaker(st, en, turns, th) ==
    LET speaker_durations == SpeakerDurations(turns, st, en, << >>)
        segment_duration == en - st
    IN  IF speaker_durations = << >>
        THEN [raised |-> FALSE, value |-> None, divided |-> FALSE, divisor |-> segment_duration]
        ELSE LET dominant_speaker == DominantItem(speaker_durations)
             IN  IF segment_duration = 0
                 THEN [raised |-> TRUE, value |-> None, divided |-> TRUE, divisor |-> segment_duration]
                 ELSE [raised |-> FALSE,
                       value |-> IF RatioMeetsThreshold(dominant_speaker[2], segment_duration, th)
                                 THEN dominant_speaker[1] ELSE None,
                       divided |-> TRUE, divisor |-> segment_duration]

----------------------------------------------------------------------------
(* SpeakerAligner._get_last_segment_time *)

\* LastSegmentTime taking the end of the turn enumerated last, not the maximum
LastSegmentTimeOfLastTurn(turns, last_time) ==
    IF turns = << >> THEN last_time ELSE turns[Len(turns)].end

RECURSIVE LastSegmentTime(_, _)
LastSegmentTime(turns, last_time) ==
    IF turns = << >> THEN last_time
    ELSE LastSegmentTime(Tail(turns),
             IF Head(turns).end > last_time THEN Head(turns).end ELSE last_time)

GetLastSegmentTime(annotation) == LastSegmentTime(annotation, 0)

----------------------------------------------------------------------------
(* SpeakerAligner._assign_speakers *)

\* str.strip()
RECURSIVE LStrip(_)
LStrip(text) ==
    IF text # << >> /\ Head(text) \in Whitespace THEN LStrip(Tail(text)) ELSE text

RECURSIVE RStrip(_)
RStrip(text) ==
    IF text # << >> /\ text[Len(text)] \in Whitespace
    THEN RStrip(SubSeq(text, 1, Len(text) - 1)) ELSE text

\* Strip left out: the text is used as given
StripNothing(text) == text

Strip(text) == RStrip(LStrip(text))

\* chunk.get('text', '')
ChunkText(chunk) == IF "text" \in chunk.keys THEN chunk.text ELSE << >>

\* Attributed with the two times in the wrong order
AttributedEndFirst(speaker, chunk_start, chunk_end, segment_text) ==
    <<speaker, chunk_end, chunk_start, segment_text>>

\* the tuple appended to speaker_transcriptions
Attributed(speaker, chunk_start, chunk_end, segment_text) ==
    <<speaker, chunk_start, chunk_end, segment_text>>

\* AppendIfSpeaker without the test of the speaker: a chunk with no dominant
\* speaker is appended under the label None
AppendAlways(speaker_transcriptions, speaker, chunk_start, chunk_end, segment_text) ==
    Append(speaker_transcriptions,
           Attributed(speaker, chunk_start, chunk_end, segment_text))

\* if speaker: speaker_transcriptions.append(...)
AppendIfSpeaker(speaker_transcriptions, speaker, chunk_start, chunk_end, segment_text) ==
    IF speaker # None /\ speaker # ""
    THEN Append(speaker_transcriptions,
                Attributed(speaker, chunk_start, chunk_end, segment_text))
    ELSE speaker_transcriptions

\* The loop over the chunks.  len(None) raises when the chunk has no 'timestamp';
\* end_time - start_time raises when the start is None.
RECURSIVE AssignLoop(_, _, _, _, _)
AssignLoop(chunks, speaker_transcriptions, turns, last_diarization_end, th) ==
    IF chunks = << >> THEN [raised |-> FALSE, value |-> speaker_transcriptions]
    ELSE LET chunk == Head(chunks)
             continue == AssignLoop(Tail(chunks), speaker_transcriptions, turns,
                                    last_diarization_end, th)
             raise == [raised |-> TRUE, value |-> << >>]
         IN  IF "timestamp" \notin chunk.keys THEN raise
             ELSE IF Len(chunk.timestamp) < 2 THEN continue
             ELSE LET chunk_start == chunk.timestamp[1]
                      chunk_end == IF chunk.timestamp[2] # NoTime
                                   THEN chunk.timestamp[2] ELSE last_diarization_end
                      segment_text == Strip(ChunkText(chunk))
                  IN  IF segment_text = << >> THEN continue
                      ELSE IF chunk_start = NoTime THEN raise
                      ELSE LET found == FindDominantSpeaker(chunk_start, chunk_end, turns, th)
                           IN  IF found.raised THEN raise
                               ELSE AssignLoop(Tail(chunks),
                                        AppendIfSpeaker(speaker_transcriptions, found.value,
                                                        chunk_start, chunk_end, segment_text),
                                        turns, last_diarization_end, th)

AssignSpeakers(chunks, turns, th) ==
    AssignLoop(chunks, << >>, turns, GetLastSegmentTime(turns), th)

----------------------------------------------------------------------------
(* SpeakerAligner._merge_consecutive_segments *)

\* Mergeable with "<=" in place of "<"
MergeableUpToTolerance(group, segment) ==
    /\ segment[1] = group[1]
    /\ Abs(segment[2] - group[3]) <= GapTolerance

\* segment[0] == current_group[0] and abs(segment[1] - current_group[2]) < 0.5
Mergeable(group, segment) ==
    /\ segment[1] = group[1]
    /\ Abs(segment[2] - group[3]) < GapTolerance

\* Absorb keeping the later of the two ends
AbsorbLatestEnd(group, segment) ==
    <<group[1], group[2], Max(group[3], segment[3]), group[4] \o <<" ">> \o segment[4]>>

\* Absorb without the separating space
AbsorbNoSpace(group, segment) ==
    <<group[1], group[2], segment[3], group[4] \o segment[4]>>

\* current_group[2] = segment[2]; current_group[3] += " " + segment[3]
Absorb(group, segment) ==
    <<group[1], group[2], segment[3], group[4] \o <<" ">> \o segment[4]>>

\* MergeStep that never absorbs: every segment starts a group of its own
MergeStepFlushing(group, merged, segment) ==
    [current_group |-> segment, merged_segments |-> Append(merged, group)]

\* One iteration of the loop over segments[1:]
MergeStep(group, merged, segment) ==
    IF Mergeable(group, segment)
    THEN [current_group |-> Absorb(group, segment), merged_segments |-> merged]
    ELSE [current_group |-> segment, merged_segments |-> Append(merged, group)]

\* Flush leaving the last group out of the list
FlushDropping(group, merged) == merged

\* if current_group: merged_segments.append(tuple(current_group))
Flush(group, merged) ==
    IF group # << >> THEN Append(merged, group) ELSE merged

RECURSIVE MergeLoop(_, _, _)
MergeLoop(rest, group, merged) ==
    IF rest = << >> THEN Flush(group, merged)
    ELSE LET s == MergeStep(group, merged, Head(rest))
         IN  MergeLoop(Tail(rest), s.current_group, s.merged_segments)

MergeConsecutiveSegments(segs) ==
    IF segs = << >> THEN << >> ELSE MergeLoop(Tail(segs), Head(segs), << >>)

----------------------------------------------------------------------------
(* SpeakerAligner.align *)

\* Align keeping the outcome of the first call on the object and giving it back
\* to the second call, whatever the arguments
AlignCached(obj, chunks, diar) ==
    IF pc = "aligned" THEN ret
    ELSE IF chunks = << >> \/ ~diar.present
         THEN [raised |-> FALSE, value |-> << >>]
         ELSE LET assigned == AssignSpeakers(chunks, diar.turns, obj.overlap_threshold)
              IN  IF assigned.raised THEN assigned
                  ELSE [raised |-> FALSE, value |-> MergeConsecutiveSegments(assigned.value)]

Align(obj, chunks, diar) ==
    IF chunks = << >> \/ ~diar.present
    THEN [raised |-> FALSE, value |-> << >>]
    ELSE LET speaker_transcriptions == AssignSpeakers(chunks, diar.turns, obj.overlap_threshold)
         IN  IF speaker_transcriptions.raised
             THEN [raised |-> TRUE, value |-> << >>]
             ELSE [raised |-> FALSE,
                   value |-> MergeConsecutiveSegments(speaker_transcriptions.value)]

----------------------------------------------------------------------------
(* Inputs *)

\* A chunk of the transcription: a dict with 'timestamp' and 'text'
Chunk(timestamp, text) == [keys |-> {"timestamp", "text"}, timestamp |-> timestamp, text |-> text]
\* a chunk with no 'timestamp' entry
ChunkNoTimestamp(text) == [keys |-> {"text"}, timestamp |-> << >>, text |-> text]

ChunkTexts == {<<" ">>, <<" ", "a", " ">>}

ChunkTimestamps ==
    {<<s, e>> \in Times \X Times : e >= s}                  \* start and end
    \cup {<<s, NoTime>> : s \in Times}                      \* end None
    \cup {<<0>>}                                            \* fewer than two values
    \cup {<<NoTime, MaxTime>>}                              \* start None

Chunks == {Chunk(ts, tx) : ts \in ChunkTimestamps, tx \in ChunkTexts}
          \cup {ChunkNoTimestamp(tx) : tx \in ChunkTexts}

----------------------------------------------------------------------------
(* Specification of one chunk's attribution: _find_dominant_speaker, then  *)
(* the append of _assign_speakers.                                         *)

InitFind ==
    /\ aligner \in {NewAligner(th, DefaultMinSegmentDuration) : th \in Thresholds}
    /\ diarization \in DiarizationsUpTo(MaxTurns)
    /\ start_time \in Times
    /\ end_time \in Times
    /\ timestamps = <<Chunk(<<start_time, end_time>>, <<" ", "a", " ">>)>>
    /\ segments = << >>
    /\ current_group = << >>
    /\ merged_segments = << >>
    /\ idx = 0
    /\ pc = "find"
    /\ ret = [raised |-> FALSE, value |-> None, divided |-> FALSE, divisor |-> 0]
    /\ calls = NoCalls
    /\ world = NoWorld
    /\ event = NoEvent
    /\ app = NoApp

CallFindDominantSpeaker ==
    /\ pc = "find"
    /\ ret' = FindDominantSpeaker(start_time, end_time, diarization.turns,
                                  aligner.overlap_threshold)
    /\ pc' = "find_done"
    /\ UNCHANGED <<aligner, timestamps, diarization, start_time, end_time, segments,
                   current_group, merged_segments, idx>>
    /\ UNCHANGED others

AppendAttributed ==
    /\ pc = "find_done"
    /\ ~ret.raised
    /\ segments' = AppendIfSpeaker(segments, ret.value, start_time, end_time,
                                   Strip(ChunkText(timestamps[1])))
    /\ pc' = "attributed"
    /\ UNCHANGED <<aligner, timestamps, diarization, start_time, end_time,
                   current_group, merged_segments, idx, ret>>
    /\ UNCHANGED others

NextFind == CallFindDominantSpeaker \/ AppendAttributed

SpecFind == InitFind /\ [][NextFind]_vars

----------------------------------------------------------------------------
(* Specification of _merge_consecutive_segments, one loop iteration a step *)

Letters == <<"a", "b", "c", "d", "e", "f">>
WordAt(k) == <<Letters[k]>>

Spans == {p \in Times \X Times : p[1] < p[2]}

\* A list of attributed segments made of speakers and spans; the k-th carries
\* the k-th word
SegmentList(f) ==
    [k \in DOMAIN f |-> Attributed(f[k][1], f[k][2][1], f[k][2][2], WordAt(k))]

InitMerge ==
    /\ aligner = NewAligner(DefaultThreshold, DefaultMinSegmentDuration)
    /\ timestamps = << >>
    /\ diarization = NoDiarization
    /\ start_time = 0
    /\ end_time = 0
    /\ \E n \in 0..MaxSegs : \E f \in [1..n -> Speakers \X Spans] :
           segments = SegmentList(f)
    /\ current_group = << >>
    /\ merged_segments = << >>
    /\ idx = 0
    /\ pc = "merge"
    /\ ret = [raised |-> FALSE, value |-> << >>]
    /\ calls = NoCalls
    /\ world = NoWorld
    /\ event = NoEvent
    /\ app = NoApp

\* lines 148-152: the empty case, or the first segment becomes the accumulator
MergeBegin ==
    /\ pc = "merge"
    /\ IF segments = << >>
       THEN /\ ret' = [raised |-> FALSE, value |-> << >>]
            /\ pc' = "merge_done"
            /\ UNCHANGED <<current_group, merged_segments, idx>>
       ELSE /\ merged_segments' = << >>
            /\ current_group' = segments[1]
            /\ idx' = 2
            /\ pc' = "merge_loop"
            /\ UNCHANGED ret
    /\ UNCHANGED <<aligner, timestamps, diarization, start_time, end_time, segments>>
    /\ UNCHANGED others

\* lines 154-164: one iteration over segments[1:]
MergeIter ==
    /\ pc = "merge_loop"
    /\ idx <= Len(segments)
    /\ LET s == MergeStep(current_group, merged_segments, segments[idx])
       IN  /\ current_group' = s.current_group
           /\ merged_segments' = s.merged_segments
    /\ idx' = idx + 1
    /\ UNCHANGED <<aligner, timestamps, diarization, start_time, end_time, segments, pc, ret>>
    /\ UNCHANGED others

\* lines 166-170: the last group is added and the list returned
MergeEnd ==
    /\ pc = "merge_loop"
    /\ idx > Len(segments)
    /\ merged_segments' = Flush(current_group, merged_segments)
    /\ ret' = [raised |-> FALSE, value |-> merged_segments']
    /\ pc' = "merge_done"
    /\ UNCHANGED <<aligner, timestamps, diarization, start_time, end_time, segments,
                   current_group, idx>>
    /\ UNCHANGED others

NextMerge == MergeBegin \/ MergeIter \/ MergeEnd

SpecMerge == InitMerge /\ [][NextMerge]_vars

----------------------------------------------------------------------------
(* Specification of the aligner: construction, then one call of align *)

NoAligner == [constructed |-> FALSE]

\* The diarization arguments of align: None, or an object of up to n turns
DiarizationArgs(n) == {NoDiarization} \cup DiarizationsUpTo(n)

Init ==
    /\ aligner = NoAligner
    /\ timestamps = << >>
    /\ diarization = NoDiarization
    /\ start_time = 0
    /\ end_time = 0
    /\ segments = << >>
    /\ current_group = << >>
    /\ merged_segments = << >>
    /\ idx = 0
    /\ pc = "new"
    /\ ret = [raised |-> FALSE, value |-> << >>]
    /\ calls = NoCalls
    /\ world = NoWorld
    /\ event = NoEvent
    /\ app = NoApp

\* SpeakerAligner(overlap_threshold=th): the value is stored as given
Construct ==
    /\ pc = "new"
    /\ \E th \in Thresholds :
           aligner' = NewAligner(th, DefaultMinSegmentDuration)
    /\ pc' = "ready"
    /\ UNCHANGED <<timestamps, diarization, start_time, end_time, segments,
                   current_group, merged_segments, idx, ret>>
    /\ UNCHANGED others

\* aligner.align(transcription, timestamps, diarization)
CallAlign ==
    /\ pc = "ready"
    /\ \E n \in 0..MaxChunks : \E chunks \in [1..n -> Chunks],
                               diar \in DiarizationArgs(MaxAlignTurns) :
           /\ timestamps' = chunks
           /\ diarization' = diar
           /\ ret' = Align(aligner, chunks, diar)
    /\ pc' = "aligned"
    /\ UNCHANGED <<aligner, start_time, end_time, segments, current_group,
                   merged_segments, idx>>
    /\ UNCHANGED others

Next == Construct \/ CallAlign

Spec == Init /\ [][Next]_vars

----------------------------------------------------------------------------
(* Specification of repeated calls: align called again and again on one aligner *)

\* The chunk lists of the repeated calls: one chunk with words, from 0 to MaxTime
RepeatChunkLists == {<<Chunk(<<0, MaxTime>>, <<" ", "a", " ">>)>>}

InitRepeat ==
    /\ aligner = NewAligner(DefaultThreshold, DefaultMinSegmentDuration)
    /\ timestamps = << >>
    /\ diarization = NoDiarization
    /\ start_time = 0
    /\ end_time = 0
    /\ segments = << >>
    /\ current_group = << >>
    /\ merged_segments = << >>
    /\ idx = 0
    /\ pc = "ready"
    /\ ret = [raised |-> FALSE, value |-> << >>]
    /\ calls = NoCalls
    /\ world = NoWorld
    /\ event = NoEvent
    /\ app = NoApp

\* aligner.align(...) on an aligner that may have been called before
CallAlignAgain ==
    /\ pc \in {"ready", "aligned", "aligned_again"}
    /\ \E chunks \in RepeatChunkLists, diar \in DiarizationArgs(MaxAlignTurns) :
           /\ timestamps' = chunks
           /\ diarization' = diar
           /\ ret' = Align(aligner, chunks, diar)
    /\ pc' = IF pc = "ready" THEN "aligned" ELSE "aligned_again"
    /\ UNCHANGED <<aligner, start_time, end_time, segments, current_group,
                   merged_segments, idx>>
    /\ UNCHANGED others

NextRepeat == CallAlignAgain

SpecRepeat == InitRepeat /\ [][NextRepeat]_vars

----------------------------------------------------------------------------
(* Specification of align on chunks that each carry a word of their own, the   *)
(* turns of the diarization enumerated in either order                         *)

\* The timestamps of the chunks: a start and a later end, or no end
WordTimestamps ==
    {p \in Times \X Times : p[1] < p[2]} \cup {<<0, NoTime>>}

\* The k-th chunk: its own word between spaces, or spaces only
WordChunk(k, timestamp, blank) ==
    Chunk(timestamp, IF blank THEN <<" ">> ELSE <<" ">> \o WordAt(k) \o <<" ">>)

\* The turns: the first half, the second half and the whole of the recording
WordTurns ==
    {[start |-> 0, end |-> MaxTime \div 2, speaker |-> "A"],
     [start |-> MaxTime \div 2, end |-> MaxTime, speaker |-> "B"],
     [start |-> 0, end |-> MaxTime, speaker |-> "A"],
     [start |-> 0, end |-> MaxTime, speaker |-> "B"]}

\* The diarizations: None, no turn, one turn, or two turns of two speakers in
\* either order of enumeration (itertracks lists the tracks of one segment by
\* track name, not by label, and the interface promises no order at all)
WordDiarizations ==
    {NoDiarization, Diarization(<< >>)}
    \cup {Diarization(<<t>>) : t \in WordTurns}
    \cup {Diarization(<<p[1], p[2]>>) :
              p \in {q \in WordTurns \X WordTurns : q[1].speaker # q[2].speaker}}

InitWords ==
    /\ aligner = NewAligner(DefaultThreshold, DefaultMinSegmentDuration)
    /\ timestamps = << >>
    /\ diarization = NoDiarization
    /\ start_time = 0
    /\ end_time = 0
    /\ segments = << >>
    /\ current_group = << >>
    /\ merged_segments = << >>
    /\ idx = 0
    /\ pc = "ready"
    /\ ret = [raised |-> FALSE, value |-> << >>]
    /\ calls = NoCalls
    /\ world = NoWorld
    /\ event = NoEvent
    /\ app = NoApp

\* aligner.align(transcription, timestamps, diarization)
CallAlignWords ==
    /\ pc = "ready"
    /\ \E n \in 0..MaxChunks : \E f \in [1..n -> WordTimestamps \X BOOLEAN],
                               diar \in WordDiarizations :
       \E chunks \in {[k \in 1..n |-> WordChunk(k, f[k][1], f[k][2])]} :
           /\ timestamps' = chunks
           /\ diarization' = diar
           /\ ret' = Align(aligner, chunks, diar)
    /\ pc' = "aligned"
    /\ UNCHANGED <<aligner, start_time, end_time, segments, current_group,
                   merged_segments, idx>>
    /\ UNCHANGED others

NextWords == CallAlignWords

SpecWords == InitWords /\ [][NextWords]_vars

----------------------------------------------------------------------------
(* Specification of concurrent invocations: two calls of align on one aligner, *)
(* each advancing by one loop iteration at a time.  What a call binds to a     *)
(* local name (lines 37, 40, 43, 78, 80, 151, 152) is a field of its own       *)
(* record in calls; the aligner is the only object the calls have in common.   *)

CallIds == {"first", "second"}

\* The chunks and diarizations given to the concurrent calls
ConcTimestamps == {<<0, MaxTime \div 2>>, <<MaxTime \div 2, MaxTime>>, <<0, NoTime>>}
ConcChunks == {Chunk(ts, <<" ", "a", " ">>) : ts \in ConcTimestamps}
ConcDiarizations ==
    {NoDiarization,
     Diarization(<<[start |-> 0, end |-> MaxTime, speaker |-> "A"]>>),
     Diarization(<<[start |-> 0, end |-> MaxTime \div 2, speaker |-> "A"],
                   [start |-> MaxTime \div 2, end |-> MaxTime, speaker |-> "B"]>>)}

\* The local variables of align(transcription, chunks, diar) on entry
NewCall(chunks, diar) ==
    [pc |-> "align", timestamps |-> chunks, diarization |-> diar,
     i |-> 0, last_diarization_end |-> 0, speaker_transcriptions |-> << >>,
     current_group |-> << >>, merged_segments |-> << >>, j |-> 0,
     ret |-> [raised |-> FALSE, value |-> << >>]]

\* lines 32-34: the early return; lines 78-80: the locals of _assign_speakers
EnterAlign(local) ==
    IF local.timestamps = << >> \/ ~local.diarization.present
    THEN [local EXCEPT !.pc = "done", !.ret = [raised |-> FALSE, value |-> << >>]]
    ELSE [local EXCEPT !.pc = "assign", !.i = 1,
                       !.last_diarization_end =
                           GetLastSegmentTime(local.diarization.turns)]

\* AssignChunk appending to the list of the first call, as if the list were an
\* attribute of the aligner
AssignChunkShared(local, th) ==
    LET out == AssignLoop(<<local.timestamps[local.i]>>,
                          calls["first"].speaker_transcriptions,
                          local.diarization.turns, local.last_diarization_end, th)
    IN  IF out.raised THEN [local EXCEPT !.pc = "raised", !.ret = out]
        ELSE [local EXCEPT !.speaker_transcriptions = out.value, !.i = @ + 1]

\* lines 83-99: one iteration of the loop over the chunks
AssignChunk(local, th) ==
    LET out == AssignLoop(<<local.timestamps[local.i]>>, local.speaker_transcriptions,
                          local.diarization.turns, local.last_diarization_end, th)
    IN  IF out.raised THEN [local EXCEPT !.pc = "raised", !.ret = out]
        ELSE [local EXCEPT !.speaker_transcriptions = out.value, !.i = @ + 1]

\* lines 148-152: the list is empty, or a copy of its first tuple is the accumulator
BeginMerge(local) ==
    IF local.speaker_transcriptions = << >>
    THEN [local EXCEPT !.pc = "done", !.ret = [raised |-> FALSE, value |-> << >>]]
    ELSE [local EXCEPT !.pc = "merge_loop", !.j = 2,
                       !.current_group = local.speaker_transcriptions[1]]

\* MergeSegment with the accumulator being the first tuple of the list itself, not
\* a copy: what the accumulator absorbs is written into the list
MergeSegmentInPlace(local) ==
    LET s == MergeStep(local.current_group, local.merged_segments,
                       local.speaker_transcriptions[local.j])
    IN  [local EXCEPT !.current_group = s.current_group,
                      !.merged_segments = s.merged_segments,
                      !.speaker_transcriptions =
                          IF Len(s.merged_segments) = 0
                          THEN [@ EXCEPT ![1] = s.current_group] ELSE @,
                      !.j = @ + 1]

\* lines 154-164: one iteration of the merge loop
MergeSegment(local) ==
    LET s == MergeStep(local.current_group, local.merged_segments,
                       local.speaker_transcriptions[local.j])
    IN  [local EXCEPT !.current_group = s.current_group,
                      !.merged_segments = s.merged_segments,
                      !.j = @ + 1]

\* lines 166-170 and 45: the last group is flushed and the list returned
EndMerge(local) ==
    [local EXCEPT !.pc = "done",
                  !.merged_segments = Flush(local.current_group, local.merged_segments),
                  !.ret = [raised |-> FALSE,
                           value |-> Flush(local.current_group, local.merged_segments)]]

InitConc ==
    /\ aligner = NewAligner(DefaultThreshold, DefaultMinSegmentDuration)
    /\ timestamps = << >>
    /\ diarization = NoDiarization
    /\ start_time = 0
    /\ end_time = 0
    /\ segments = << >>
    /\ current_group = << >>
    /\ merged_segments = << >>
    /\ idx = 0
    /\ pc = "calls"
    /\ ret = [raised |-> FALSE, value |-> << >>]
    /\ \E n1 \in 0..MaxChunks, n2 \in 0..MaxChunks :
           \E c1 \in [1..n1 -> ConcChunks], c2 \in [1..n2 -> ConcChunks],
              d1 \in ConcDiarizations, d2 \in ConcDiarizations :
               calls = [c \in CallIds |-> IF c = "first" THEN NewCall(c1, d1)
                                          ELSE NewCall(c2, d2)]
    /\ world = NoWorld
    /\ event = NoEvent
    /\ app = NoApp

\* what no step of align assigns: the aligner and the variables of other layers
ConcFrame ==
    UNCHANGED <<aligner, timestamps, diarization, start_time, end_time, segments,
                current_group, merged_segments, idx, pc, ret, world, event, app>>

CallEnter(c) ==
    /\ calls[c].pc = "align"
    /\ calls' = [calls EXCEPT ![c] = EnterAlign(calls[c])]
    /\ ConcFrame

CallAssign(c) ==
    /\ calls[c].pc = "assign"
    /\ calls[c].i <= Len(calls[c].timestamps)
    /\ calls' = [calls EXCEPT ![c] = AssignChunk(calls[c], aligner.overlap_threshold)]
    /\ ConcFrame

CallMergeBegin(c) ==
    /\ calls[c].pc = "assign"
    /\ calls[c].i > Len(calls[c].timestamps)
    /\ calls' = [calls EXCEPT ![c] = BeginMerge(calls[c])]
    /\ ConcFrame

CallMergeIter(c) ==
    /\ calls[c].pc = "merge_loop"
    /\ calls[c].j <= Len(calls[c].speaker_transcriptions)
    /\ calls' = [calls EXCEPT ![c] = MergeSegment(calls[c])]
    /\ ConcFrame

CallMergeEnd(c) ==
    /\ calls[c].pc = "merge_loop"
    /\ calls[c].j > Len(calls[c].speaker_transcriptions)
    /\ calls' = [calls EXCEPT ![c] = EndMerge(calls[c])]
    /\ ConcFrame

NextConc ==
    \E c \in CallIds :
        \/ CallEnter(c)
        \/ CallAssign(c)
        \/ CallMergeBegin(c)
        \/ CallMergeIter(c)
        \/ CallMergeEnd(c)

SpecConc == InitConc /\ [][NextConc]_vars

----------------------------------------------------------------------------
(* The application layer: src/EchoInStone/capture/downloader_factory.py,       *)
(* src/EchoInStone/processing/audio_processing_orchestrator.py,                *)
(* src/EchoInStone/app.py and src/serverless/handler.py.                       *)
(*                                                                             *)
(* A string that the code tests or builds is a sequence of pieces: a URL is    *)
(* the sequence of its parts, an f-string the sequence of its literal and      *)
(* formatted parts.  The outcome of a call is a record: raised tells whether   *)
(* an exception left the call, message is str(e), value what it returned.      *)

Returns(v) == [raised |-> FALSE, message |-> << >>, is_none |-> FALSE, value |-> v]
ReturnsNone == [raised |-> FALSE, message |-> << >>, is_none |-> TRUE, value |-> << >>]
Raises(message) == [raised |-> TRUE, message |-> message, is_none |-> FALSE, value |-> << >>]

\* "part in url" and url.endswith(part)
Contains(url, part) == \E k \in 1..Len(url) : url[k] = part
EndsWith(url, part) == url # << >> /\ url[Len(url)] = part

\* GetDownloader testing the end of the URL before the name of the site
GetDownloaderSuffixFirst(url, output_dir) ==
    IF EndsWith(url, ".xml")
    THEN Returns([class |-> "PodcastDownloader", output_dir |-> output_dir])
    ELSE IF EndsWith(url, ".mp3") \/ EndsWith(url, ".wav")
    THEN Returns([class |-> "AudioDownloader", output_dir |-> output_dir])
    ELSE IF Contains(url, "youtube.com") \/ Contains(url, "youtu.be")
    THEN Returns([class |-> "YouTubeDownloader", output_dir |-> output_dir])
    ELSE Raises(<<"Unsupported URL format">>)

\* get_downloader(url, output_dir)
GetDownloader(url, output_dir) ==
    IF Contains(url, "youtube.com") \/ Contains(url, "youtu.be")
    THEN Returns([class |-> "YouTubeDownloader", output_dir |-> output_dir])
    ELSE IF EndsWith(url, ".xml")
    THEN Returns([class |-> "PodcastDownloader", output_dir |-> output_dir])
    ELSE IF EndsWith(url, ".mp3") \/ EndsWith(url, ".wav")
    THEN Returns([class |-> "AudioDownloader", output_dir |-> output_dir])
    ELSE Raises(<<"Unsupported URL format">>)

\* Process going on when the download gave no path
ProcessWithoutPath(w, echo_input) ==
    LET debug == IF w.log_level = "DEBUG"
                 THEN <<"save_data", "save_data", "save_data">> ELSE << >>
        aligned == Align(NewAligner(DefaultThreshold, DefaultMinSegmentDuration),
                         w.timestamps, w.diarization)
    IN  [outcome |-> IF aligned.raised THEN Raises(<<"TypeError">>)
                     ELSE Returns(aligned.value),
         trace |-> <<"download", "transcribe", "diarize">> \o debug \o <<"align">>]

\* AudioProcessingOrchestrator.process: download, transcribe, diarize, the debug
\* files, align.  w is what the collaborators give for this input; trace is the
\* sequence of collaborators invoked.
Process(w, echo_input) ==
    IF ~w.downloaded
    THEN [outcome |-> ReturnsNone, trace |-> <<"download">>]
    ELSE LET debug == IF w.log_level = "DEBUG"
                      THEN <<"save_data", "save_data", "save_data">> ELSE << >>
             aligned == Align(NewAligner(DefaultThreshold, DefaultMinSegmentDuration),
                              w.timestamps, w.diarization)
         IN  [outcome |-> IF aligned.raised THEN Raises(<<"TypeError">>)
                          ELSE Returns(aligned.value),
              trace |-> <<"download", "transcribe", "diarize">> \o debug \o <<"align">>]

\* The methods the class AudioProcessingOrchestrator defines besides __init__
OrchestratorMethods == {"process"}

\* orchestrator.<name>(echo_input): AttributeError when the class has no such method.
\* When the name AudioProcessingOrchestrator of app.py is bound to a stand-in, as
\* tests/test_app.py binds it, every method exists and gives the value configured.
CallOrchestrator(name, w, echo_input) ==
    IF w.stand_in = "AudioProcessingOrchestrator" THEN w.extracted
    ELSE IF name \in OrchestratorMethods
    THEN Process(w, echo_input).outcome
    ELSE Raises(<<"'AudioProcessingOrchestrator' object has no attribute '", name, "'">>)

\* EchoInStoneApp(output_dir=output_dir)
NewApp(output_dir) ==
    [constructed |-> TRUE, output_dir |-> output_dir,
     transcriber |-> FALSE, diarizer |-> FALSE, aligner |-> FALSE, data_saver |-> FALSE,
     saved |-> << >>]

\* _initialize_components: the transcriber, then the diarizer, whose constructor
\* re-raises what loading the model raised, then the aligner and the data saver
InitializeComponents(obj, w) ==
    IF ~obj.diarizer /\ w.init_error # << >>
    THEN [raised |-> TRUE, message |-> w.init_error,
          app |-> [obj EXCEPT !.transcriber = TRUE]]
    ELSE [raised |-> FALSE, message |-> << >>,
          app |-> [obj EXCEPT !.transcriber = TRUE, !.diarizer = TRUE,
                              !.aligner = TRUE, !.data_saver = TRUE]]

\* ProcessAudio saving whatever the orchestrator returned, None and the empty
\* list included
ProcessAudioAlwaysSaving(obj, echo_input, transcription_output, w) ==
    LET init == InitializeComponents(obj, w)
        downloader == GetDownloader(echo_input, obj.output_dir)
        speaker_transcriptions == CallOrchestrator("extract_and_transcribe", w, echo_input)
        saved == [init.app EXCEPT !.saved =
                     Append(@, <<transcription_output, speaker_transcriptions.value>>)]
    IN  IF init.raised THEN [outcome |-> Raises(init.message), app |-> init.app]
        ELSE IF downloader.raised
        THEN [outcome |-> Raises(downloader.message), app |-> init.app]
        ELSE IF speaker_transcriptions.raised
        THEN [outcome |-> Raises(speaker_transcriptions.message), app |-> init.app]
        ELSE IF ~speaker_transcriptions.is_none /\ speaker_transcriptions.value # << >>
        THEN [outcome |-> Returns(speaker_transcriptions.value), app |-> saved]
        ELSE [outcome |-> ReturnsNone, app |-> saved]

\* process_audio(echo_input, transcription_output): the outcome and the object after
ProcessAudio(obj, echo_input, transcription_output, w) ==
    LET init == InitializeComponents(obj, w)
        downloader == GetDownloader(echo_input, obj.output_dir)
        speaker_transcriptions == CallOrchestrator("extract_and_transcribe", w, echo_input)
    IN  IF init.raised THEN [outcome |-> Raises(init.message), app |-> init.app]
        ELSE IF downloader.raised
        THEN [outcome |-> Raises(downloader.message), app |-> init.app]
        ELSE IF speaker_transcriptions.raised
        THEN [outcome |-> Raises(speaker_transcriptions.message), app |-> init.app]
        ELSE IF ~speaker_transcriptions.is_none /\ speaker_transcriptions.value # << >>
        THEN [outcome |-> Returns(speaker_transcriptions.value),
              app |-> [init.app EXCEPT !.saved =
                          Append(@, <<transcription_output, speaker_transcriptions.value>>)]]
        ELSE [outcome |-> ReturnsNone, app |-> init.app]

TranscriptionOutput == <<"speaker_transcriptions.json">>

\* The dicts process_audio_sync and kubernetes_handler return
Success(speaker_transcriptions, transcription_output) ==
    [keys |-> {"status", "transcriptions", "output_file", "message"},
     status |-> "success",
     transcriptions |-> speaker_transcriptions,
     output_file |-> transcription_output,
     message |-> <<"Successfully processed audio with ",
                   ToString(Len(speaker_transcriptions)), " segments">>]

Error(message) ==
    [keys |-> {"status", "message"}, status |-> "error", transcriptions |-> << >>,
     output_file |-> << >>, message |-> message]

\* SyncResult without the except clause
SyncResultNoCatch(called) ==
    IF called.outcome.raised
    THEN [outcome |-> called.outcome, app |-> called.app]
    ELSE IF ~called.outcome.is_none /\ called.outcome.value # << >>
    THEN [outcome |-> Returns(Success(called.outcome.value, TranscriptionOutput)),
          app |-> called.app]
    ELSE [outcome |-> Returns(Error(<<"No transcriptions were generated">>)),
          app |-> called.app]

\* lines 102-119: what process_audio_sync makes of what process_audio came to
SyncResult(called) ==
    IF called.outcome.raised
    THEN [outcome |-> Returns(Error(<<"Processing failed: ">> \o called.outcome.message)),
          app |-> called.app]
    ELSE IF ~called.outcome.is_none /\ called.outcome.value # << >>
    THEN [outcome |-> Returns(Success(called.outcome.value, TranscriptionOutput)),
          app |-> called.app]
    ELSE [outcome |-> Returns(Error(<<"No transcriptions were generated">>)),
          app |-> called.app]

\* process_audio_sync(echo_input)
ProcessAudioSync(obj, echo_input, w) ==
    SyncResult(ProcessAudio(obj, echo_input, TranscriptionOutput, w))

\* The names of the logging module that LOG_LEVEL may spell
LoggingLevels == {"DEBUG", "INFO", "WARNING", "ERROR", "CRITICAL"}

\* setup_logging: getattr(logging, log_level) raises for a name logging does not have
SetupLogging(w) ==
    IF w.log_level \in LoggingLevels THEN ReturnsNone
    ELSE Raises(<<"module 'logging' has no attribute '", w.log_level, "'">>)

\* argument.get(key, default): AttributeError when the argument is None
Get(argument, key, default) ==
    IF ~argument.present THEN Raises(<<"'NoneType' object has no attribute 'get'">>)
    ELSE IF key \notin argument.keys THEN Returns(default)
    ELSE Returns(IF key = "echo_input" THEN argument.echo_input ELSE argument.output_dir)

\* What json.loads gives for the array a tuple or a list was written as
List(items) == [list |-> items]

\* JsonDumps writing the speaker and the two times of a segment, not its text
JsonDumpsWithoutText(d) ==
    [document |-> IF "transcriptions" \in d.keys
                  THEN [d EXCEPT !.transcriptions =
                                     [k \in DOMAIN @ |-> List(SubSeq(@[k], 1, 3))]]
                  ELSE d]

\* json.dumps(d): a document whose arrays no longer tell a tuple from a list
JsonDumps(d) ==
    [document |-> IF "transcriptions" \in d.keys
                  THEN [d EXCEPT !.transcriptions = [k \in DOMAIN @ |-> List(@[k])]]
                  ELSE d]

\* json.loads(text): the dict of the document
JsonLoads(text) == text.document

\* The dict of the body of the answers lambda_handler builds itself
ErrorBody(message) == [keys |-> {"error"}, error |-> message]

\* StatusCode with the two codes exchanged
StatusCodeExchanged(result) == IF result.status = "success" THEN 500 ELSE 200

\* status_code = 200 if result['status'] == 'success' else 500
StatusCode(result) == IF result.status = "success" THEN 200 ELSE 500

\* EchoInStoneApp(output_dir=output_dir) when the name EchoInStoneApp of handler.py
\* is bound to a stand-in, as tests/test_api_contracts.py binds it
StandInApp(output_dir) == [constructed |-> TRUE, output_dir |-> output_dir, stand_in |-> TRUE]

\* What the try block came to when it has called process_audio_sync
Called(result) == [outcome |-> result.outcome, missing |-> FALSE, app |-> result.app]

\* lines 44-54 and 90-98: the test of echo_input, then the application.
\* missing tells that the block returned for want of echo_input.
TestEchoInput(echo_input, output_dir, w) ==
    IF echo_input.raised
    THEN [outcome |-> echo_input, missing |-> FALSE, app |-> NoApp]
    ELSE IF echo_input.value = << >>
    THEN [outcome |-> ReturnsNone, missing |-> TRUE, app |-> NoApp]
    ELSE Called(IF w.stand_in = "EchoInStoneApp"
                THEN [outcome |-> Returns(w.returned), app |-> StandInApp(output_dir.value)]
                ELSE ProcessAudioSync(NewApp(output_dir.value), echo_input.value, w))

\* The try block shared by lambda_handler (lines 41-54) and kubernetes_handler
\* (lines 87-98)
TryBlock(argument, default_output_dir, w) ==
    TestEchoInput(Get(argument, "echo_input", << >>),
                  Get(argument, "output_dir", default_output_dir), w)

\* What lambda_handler returns or raises, given what setup_logging and the try
\* block came to
LambdaAnswer(logging, try) ==
    IF logging.raised THEN [outcome |-> logging, app |-> NoApp]
    ELSE IF try.outcome.raised
    THEN [outcome |-> Returns([statusCode |-> 500,
                               body |-> JsonDumps(ErrorBody(<<"Internal server error: ">>
                                                              \o try.outcome.message))]),
          app |-> try.app]
    ELSE IF try.missing
    THEN [outcome |-> Returns([statusCode |-> 400,
                               body |-> JsonDumps(ErrorBody(
                                   <<"Missing required parameter: ", "echo_input">>))]),
          app |-> try.app]
    ELSE [outcome |-> Returns([statusCode |-> StatusCode(try.outcome.value),
                               body |-> JsonDumps(try.outcome.value)]),
          app |-> try.app]

\* lambda_handler(event, context)
LambdaHandler(argument, w) ==
    LambdaAnswer(SetupLogging(w), TryBlock(argument, <<"/tmp/results">>, w))

\* KubernetesAnswer without the except clause
KubernetesAnswerNoCatch(logging, try) ==
    IF logging.raised THEN [outcome |-> logging, app |-> NoApp]
    ELSE IF try.outcome.raised
    THEN [outcome |-> try.outcome, app |-> try.app]
    ELSE IF try.missing
    THEN [outcome |-> Returns(Error(<<"Missing required parameter: ", "echo_input">>)),
          app |-> try.app]
    ELSE [outcome |-> try.outcome, app |-> try.app]

\* What kubernetes_handler returns or raises, given what setup_logging and the
\* try block came to
KubernetesAnswer(logging, try) ==
    IF logging.raised THEN [outcome |-> logging, app |-> NoApp]
    ELSE IF try.outcome.raised
    THEN [outcome |-> Returns(Error(<<"Processing failed: ">> \o try.outcome.message)),
          app |-> try.app]
    ELSE IF try.missing
    THEN [outcome |-> Returns(Error(<<"Missing required parameter: ", "echo_input">>)),
          app |-> try.app]
    ELSE [outcome |-> try.outcome, app |-> try.app]

\* kubernetes_handler(request_data)
KubernetesHandler(argument, w) ==
    KubernetesAnswer(SetupLogging(w), TryBlock(argument, <<"/app/results">>, w))

\* request.get_json() of Flask: the parsed body, or BadRequest for a body that
\* is not JSON
GetJson(body) ==
    IF body.parsable THEN Returns(body.data) ELSE Raises(<<"400 Bad Request">>)

\* result = kubernetes_handler(data), the name bound to a stand-in or not
Handle(data, w) ==
    IF data.raised THEN data
    ELSE IF w.stand_in = "kubernetes_handler" THEN Returns(w.returned)
    ELSE KubernetesHandler(data.value, w).outcome

\* The answer of the except clause of the /process route
RequestFailed(message) ==
    [statusCode |-> 500,
     body |-> JsonDumps(Error(<<"Request processing failed: ">> \o message))]

\* HttpStatusCode with the code lambda_handler gives to an error result
HttpStatusCodeOfLambda(result) == IF result.status = "success" THEN 200 ELSE 500

\* status_code = 200 if result['status'] == 'success' else 400
HttpStatusCode(result) == IF result.status = "success" THEN 200 ELSE 400

\* What the /process route answers, given what get_json and kubernetes_handler
\* came to
ProcessRouteAnswer(data, handled) ==
    IF data.raised THEN RequestFailed(data.message)
    ELSE IF handled.raised THEN RequestFailed(handled.message)
    ELSE IF "status" \notin handled.value.keys THEN RequestFailed(<<"'status'">>)
    ELSE [statusCode |-> HttpStatusCode(handled.value),
          body |-> JsonDumps(handled.value)]

\* POST /process
ProcessRoute(body, w) == ProcessRouteAnswer(GetJson(body), Handle(GetJson(body), w))

\* GET /health
HealthCheck ==
    [statusCode |-> 200, body |-> JsonDumps([keys |-> {"status"}, status |-> "healthy"])]

----------------------------------------------------------------------------
(* Specification of the application layer: one request, given either to a      *)
(* handler or to process_audio_sync of an application constructed beforehand   *)

\* The URLs and paths given as echo_input; << >> is the empty string
EchoInputs ==
    {<< >>,
     <<"https://www.", "youtube.com", "/watch?v=x">>,
     <<"https://", "youtu.be", "/x", ".xml">>,
     <<"https://host/feed", ".xml">>,
     <<"https://host/file", ".mp3">>,
     <<"/data/file", ".wav">>,
     <<"https://host/page">>}

OutputDirs == {<<"results">>}

\* The dicts given to a handler: with or without each of the two keys
Events ==
    {[present |-> TRUE, keys |-> k, echo_input |-> IF "echo_input" \in k THEN u ELSE << >>,
      output_dir |-> IF "output_dir" \in k THEN d ELSE << >>,
      transcription_output |-> << >>] :
         k \in SUBSET {"echo_input", "output_dir"}, u \in EchoInputs, d \in OutputDirs}

\* What the environment and the collaborators give: LOG_LEVEL, the failure of the
\* diarization model to load, the download, the transcriber's chunks, the
\* diarizer's turns
Worlds ==
    [present : {TRUE},
     log_level : {"INFO", "DEBUG", "TRACE"},
     init_error : {<< >>, <<"Could not load the diarization model">>},
     downloaded : BOOLEAN,
     timestamps : {<< >>, <<Chunk(<<0, MaxTime>>, <<" ", "a", " ">>)>>},
     diarization : {NoDiarization,
                    Diarization(<<[start |-> 0, end |-> MaxTime, speaker |-> "A"]>>)},
     stand_in : {"none"},
     extracted : {ReturnsNone},
     returned : {Error(<< >>)}]

\* The lists a stand-in of the orchestrator is configured to give
SegmentLists ==
    {<< >>,
     <<Attributed("A", 0, MaxTime, <<"a">>)>>,
     <<Attributed("A", 0, 1, <<"a">>), Attributed("B", 1, MaxTime, <<"b">>)>>}

\* The dicts a stand-in of the application or of kubernetes_handler is configured
\* to give: those process_audio_sync can build
Results ==
    {Success(l, TranscriptionOutput) : l \in SegmentLists \ {<< >>}}
    \cup {Error(<<"No transcriptions were generated">>),
          Error(<<"Processing failed: ", "Unsupported URL format">>)}

\* The worlds in which one name is bound to a stand-in, as the tests bind it:
\* AudioProcessingOrchestrator in app.py (tests/test_app.py), EchoInStoneApp or
\* kubernetes_handler in handler.py (tests/test_api_contracts.py,
\* tests/test_serverless_handlers.py)
StandInWorlds ==
    [present : {TRUE},
     log_level : {"INFO"},
     init_error : {<< >>},
     downloaded : {TRUE},
     timestamps : {<<Chunk(<<0, MaxTime>>, <<" ", "a", " ">>)>>},
     diarization : {Diarization(<<[start |-> 0, end |-> MaxTime, speaker |-> "A"]>>)},
     stand_in : {"AudioProcessingOrchestrator"},
     extracted : {ReturnsNone} \cup {Returns(l) : l \in SegmentLists},
     returned : {Error(<< >>)}]
    \cup
    [present : {TRUE},
     log_level : {"INFO", "TRACE"},
     init_error : {<< >>},
     downloaded : {TRUE},
     timestamps : {<<Chunk(<<0, MaxTime>>, <<" ", "a", " ">>)>>},
     diarization : {Diarization(<<[start |-> 0, end |-> MaxTime, speaker |-> "A"]>>)},
     stand_in : {"EchoInStoneApp", "kubernetes_handler"},
     extracted : {ReturnsNone},
     returned : Results]

InitApp ==
    /\ aligner = NoAligner
    /\ timestamps = << >>
    /\ diarization = NoDiarization
    /\ start_time = 0
    /\ end_time = 0
    /\ segments = << >>
    /\ current_group = << >>
    /\ merged_segments = << >>
    /\ idx = 0
    /\ pc = "request"
    /\ ret = ReturnsNone
    /\ calls = NoCalls
    /\ world \in Worlds
    /\ event = NoEvent
    /\ app = NoApp

AppFrame ==
    UNCHANGED <<aligner, timestamps, diarization, start_time, end_time, segments,
                current_group, merged_segments, idx, calls, world>>

\* lambda_handler(event, None), event a dict or None
CallLambdaHandler ==
    /\ pc = "request"
    /\ \E e \in Events \cup {NoEvent} : \E answer \in {LambdaHandler(e, world)} :
           /\ event' = e
           /\ ret' = answer.outcome
           /\ app' = answer.app
    /\ pc' = "lambda_done"
    /\ AppFrame

\* kubernetes_handler(request_data), request_data a dict or None
CallKubernetesHandler ==
    /\ pc = "request"
    /\ \E e \in Events \cup {NoEvent} : \E answer \in {KubernetesHandler(e, world)} :
           /\ event' = e
           /\ ret' = answer.outcome
           /\ app' = answer.app
    /\ pc' = "kubernetes_done"
    /\ AppFrame

\* app = EchoInStoneApp(output_dir)
ConstructApp ==
    /\ pc = "request"
    /\ \E d \in OutputDirs : app' = NewApp(d)
    /\ pc' = "app_ready"
    /\ UNCHANGED <<event, ret>>
    /\ AppFrame

\* app.process_audio_sync(echo_input); event keeps the argument
CallProcessAudioSync ==
    /\ pc = "app_ready"
    /\ \E u \in EchoInputs : \E result \in {ProcessAudioSync(app, u, world)} :
           /\ event' = [present |-> TRUE, keys |-> {"echo_input"}, echo_input |-> u,
                        output_dir |-> << >>, transcription_output |-> << >>]
           /\ ret' = result.outcome
           /\ app' = result.app
    /\ pc' = "sync_done"
    /\ AppFrame

\* The parts a URL is made of: the texts get_downloader looks for, and "x" for
\* any text that holds none of them
Parts == {"youtube.com", "youtu.be", ".xml", ".mp3", ".wav", "x"}

\* The directories given to get_downloader
DownloadDirs == OutputDirs \cup {<<"test_output">>}

\* get_downloader(url, output_dir)
CallGetDownloader ==
    /\ pc = "request"
    /\ \E n \in 0..MaxParts : \E url \in [1..n -> Parts], d \in DownloadDirs :
           /\ event' = [present |-> TRUE, keys |-> {"url", "output_dir"},
                        echo_input |-> url, output_dir |-> d,
                        transcription_output |-> << >>]
           /\ ret' = GetDownloader(url, d)
    /\ pc' = "downloader_done"
    /\ UNCHANGED app
    /\ AppFrame

\* orchestrator.process(echo_input), the orchestrator constructed with the
\* downloader get_downloader gave for echo_input
CallProcess ==
    /\ pc = "request"
    /\ \E u \in {v \in EchoInputs : ~GetDownloader(v, <<"results">>).raised} :
       \E result \in {Process(world, u)} :
           /\ event' = [present |-> TRUE, keys |-> {"echo_input"}, echo_input |-> u,
                        output_dir |-> << >>, transcription_output |-> << >>]
           /\ ret' = result.outcome
           /\ calls' = result.trace
    /\ pc' = "process_done"
    /\ UNCHANGED <<aligner, timestamps, diarization, start_time, end_time, segments,
                   current_group, merged_segments, idx, world, app>>

NextApp ==
    \/ CallGetDownloader
    \/ CallProcess
    \/ CallLambdaHandler
    \/ CallKubernetesHandler
    \/ ConstructApp
    \/ CallProcessAudioSync

SpecApp == InitApp /\ [][NextApp]_vars

----------------------------------------------------------------------------
(* Specification of the application layer with one name bound to a stand-in,   *)
(* the composition in which the tests of the repository run it                 *)

InitStandIn ==
    /\ aligner = NoAligner
    /\ timestamps = << >>
    /\ diarization = NoDiarization
    /\ start_time = 0
    /\ end_time = 0
    /\ segments = << >>
    /\ current_group = << >>
    /\ merged_segments = << >>
    /\ idx = 0
    /\ pc = "request"
    /\ ret = ReturnsNone
    /\ calls = NoCalls
    /\ world \in StandInWorlds
    /\ event = NoEvent
    /\ app = NoApp

\* The file names given as transcription_output
TranscriptionOutputs == {TranscriptionOutput, <<"output.json">>}

\* app.process_audio(echo_input, transcription_output)
CallProcessAudio ==
    /\ pc = "app_ready"
    /\ \E u \in EchoInputs, t \in TranscriptionOutputs :
       \E result \in {ProcessAudio(app, u, t, world)} :
           /\ event' = [present |-> TRUE, keys |-> {"echo_input", "transcription_output"},
                        echo_input |-> u, output_dir |-> << >>,
                        transcription_output |-> t]
           /\ ret' = result.outcome
           /\ app' = result.app
    /\ pc' = "audio_done"
    /\ AppFrame

\* The bodies posted to /process: a JSON dict, JSON null, or text that is not JSON
Bodies ==
    {[parsable |-> TRUE, data |-> e] : e \in Events \cup {NoEvent}}
    \cup {[parsable |-> FALSE, data |-> NoEvent]}

\* app = http_handler(): setup_logging, then the application with its two routes
CallHttpHandler ==
    /\ pc = "request"
    /\ ret' = SetupLogging(world)
    /\ pc' = IF SetupLogging(world).raised THEN "http_failed" ELSE "http_ready"
    /\ UNCHANGED <<event, app>>
    /\ AppFrame

\* The frame of a request answered by the HTTP application
HttpFrame ==
    UNCHANGED <<aligner, timestamps, diarization, start_time, end_time, segments,
                current_group, merged_segments, idx, pc, world, app>>

\* A POST on /process
PostProcess ==
    /\ pc = "http_ready"
    /\ Len(calls) < MaxRequests
    /\ \E body \in Bodies :
           /\ event' = body.data
           /\ ret' = Returns(ProcessRoute(body, world))
           /\ calls' = Append(calls, [route |-> "/process", parsable |-> body.parsable])
    /\ HttpFrame

\* A GET on /health
GetHealth ==
    /\ pc = "http_ready"
    /\ Len(calls) < MaxRequests
    /\ ret' = Returns(HealthCheck)
    /\ calls' = Append(calls, [route |-> "/health", parsable |-> TRUE])
    /\ UNCHANGED event
    /\ HttpFrame

NextStandIn ==
    \/ CallHttpHandler
    \/ PostProcess
    \/ GetHealth
    \/ CallLambdaHandler
    \/ CallKubernetesHandler
    \/ ConstructApp
    \/ CallProcessAudio

SpecStandIn == InitStandIn /\ [][NextStandIn]_vars

----------------------------------------------------------------------------
(* Properties of _find_dominant_speaker (SpecFind) *)

\* The summed intersection of the span [st, en] with the turns of speaker sp
RECURSIVE TotalOverlap(_, _, _, _)
TotalOverlap(sp, turns, st, en) ==
    IF turns = << >> THEN 0
    ELSE (IF Head(turns).speaker = sp
          THEN Max(0, Min(en, Head(turns).end) - Max(st, Head(turns).start))
          ELSE 0)
         + TotalOverlap(sp, Tail(turns), st, en)

Overlap(sp) == TotalOverlap(sp, diarization.turns, start_time, end_time)
MaxOverlap == CHOOSE m \in {Overlap(sp) : sp \in Speakers} :
                  \A sp \in Speakers : Overlap(sp) <= m
TurnsOf(sp) == {k \in 1..Len(diarization.turns) : diarization.turns[k].speaker = sp}
TurnOverlap(k) == TotalOverlap(diarization.turns[k].speaker, <<diarization.turns[k]>>,
                               start_time, end_time)

\* C1: for a span with end > start, the label _find_dominant_speaker returns has
\* a summed overlap (over all of its turns, contiguous or not) that is maximal
\* among all labels.
C1_DominantHasMaxOverlap ==
    (pc = "find_done" /\ end_time > start_time /\ ~ret.raised /\ ret.value # None)
        => /\ ret.value \in Speakers
           /\ \A sp \in Speakers : Overlap(sp) <= Overlap(ret.value)

\* C1 witness: A wins with two turns, each shorter than B's single turn
C1_Witness ==
    /\ pc = "find_done"
    /\ ret.value = "A"
    /\ Cardinality(TurnsOf("A")) = 2
    /\ Cardinality(TurnsOf("B")) = 1
    /\ \A a \in TurnsOf("A"), b \in TurnsOf("B") :
           TurnOverlap(a) > 0 /\ TurnOverlap(a) < TurnOverlap(b)
    /\ Overlap("A") > Overlap("B")

\* C2: for a chunk with end > start that some speaker overlaps, the chunk is
\* attributed to the dominant speaker if and only if that speaker's summed overlap
\* divided by the chunk's duration is >= overlap_threshold (equality accepted);
\* otherwise no speaker is returned and nothing is appended for the chunk.
C2_AcceptedIffRatioAtLeastThreshold ==
    (pc = "attributed" /\ end_time > start_time /\ MaxOverlap > 0)
        => IF MaxOverlap * aligner.overlap_threshold.den
                  >= aligner.overlap_threshold.num * (end_time - start_time)
           THEN /\ ret.value \in Speakers
                /\ Overlap(ret.value) = MaxOverlap
                /\ segments = << <<ret.value, start_time, end_time, <<"a">>>> >>
           ELSE /\ ret.value = None
                /\ segments = << >>

\* C2 witness: a ratio exactly equal to the threshold, accepted
C2_Witness ==
    /\ pc = "attributed"
    /\ end_time > start_time
    /\ MaxOverlap * aligner.overlap_threshold.den
           = aligner.overlap_threshold.num * (end_time - start_time)
    /\ Len(segments) = 1

\* C8: for a span with end <= start, _find_dominant_speaker returns no speaker,
\* and whenever the division is evaluated its divisor is strictly positive.
C8_NoDivisionByNonPositiveDuration ==
    (pc \in {"find_done", "attributed"})
        => /\ end_time <= start_time
                 => (~ret.raised /\ ret.value = None /\ ~ret.divided)
           /\ ret.divided => ret.divisor > 0

\* C8 witness: a span of duration <= 0 lying inside a turn, no speaker returned
C8_Witness ==
    /\ pc = "find_done"
    /\ end_time <= start_time
    /\ \E k \in 1..Len(diarization.turns) :
           /\ diarization.turns[k].start <= end_time
           /\ start_time <= diarization.turns[k].end
    /\ ret.value = None
    /\ ~ret.divided

----------------------------------------------------------------------------
(* Properties of _merge_consecutive_segments (SpecMerge) *)

\* An iteration of the loop, and what it did with segments[idx]
IsIteration == pc = "merge_loop" /\ pc' = "merge_loop"
SameSpeaker == segments[idx][1] = current_group[1]
Gap == Abs(segments[idx][2] - current_group[3])
Absorbed ==
    /\ merged_segments' = merged_segments
    /\ current_group' = <<current_group[1], current_group[2], segments[idx][3],
                          current_group[4] \o <<" ">> \o segments[idx][4]>>
NotAbsorbed ==
    /\ merged_segments' = Append(merged_segments, current_group)
    /\ current_group' = segments[idx]

C4_AbsorbOrFlush ==
    [][/\ IsIteration
          => IF merged_segments' = merged_segments THEN Absorbed ELSE NotAbsorbed
       /\ (pc = "merge" /\ segments # << >>) => pc' = "merge_loop"
       /\ (pc = "merge_loop" /\ pc' = "merge_done")
          => /\ ret'.value = Append(merged_segments, current_group)
             /\ ret'.value # << >>]_vars

\* C4 witness: the second segment absorbed (moving the end), the third not, and
\* the last accumulator flushed
C4_Witness ==
    /\ pc = "merge_done"
    /\ Len(segments) = 3
    /\ segments[2][3] # segments[1][3]
    /\ ret.value = << <<segments[1][1], segments[1][2], segments[2][3],
                        <<"a", " ", "b">>>>, segments[3] >>

----------------------------------------------------------------------------
(* Properties of align (Spec) *)

\* The chunk has a start value: a 'timestamp' of two values, the first not None
HasStart(chunk) ==
    /\ "timestamp" \in chunk.keys
    /\ Len(chunk.timestamp) >= 2
    /\ chunk.timestamp[1] # NoTime

\* The chunk's text has a character that is not whitespace
HasWords(chunk) ==
    /\ "text" \in chunk.keys
    /\ \E k \in 1..Len(chunk.text) : chunk.text[k] \notin Whitespace

Keep(chunks, Test(_)) == SelectSeq(chunks, Test)

\* The chunk's end, an absent one resolved to the last end of the diarization
ResolvedEnd(chunk) ==
    IF chunk.timestamp[2] # NoTime THEN chunk.timestamp[2]
    ELSE GetLastSegmentTime(diarization.turns)

\* The chunks that have a start come in non-decreasing order of start
SortedByStart ==
    LET c == Keep(timestamps, HasStart)
    IN  \A k \in 1..(Len(c) - 1) : c[k].timestamp[1] <= c[k + 1].timestamp[1]

\* No chunk starts before the end of the chunk before it
ChunksDoNotOverlap ==
    LET c == Keep(timestamps, HasStart)
    IN  \A k \in 1..(Len(c) - 1) : ResolvedEnd(c[k]) <= c[k + 1].timestamp[1]

Returned == pc = "aligned" /\ ~ret.raised

\* C5: align returns the empty list when the chunk list is empty, when the
\* diarization is None and when the diarization has no turns, whatever the other
\* argument; and merging the empty list gives the empty list.
C5_EmptyInputsGiveEmpty ==
    /\ MergeConsecutiveSegments(<< >>) = << >>
    /\ (pc = "aligned" /\ (\/ timestamps = << >>
                           \/ ~diarization.present
                           \/ diarization.turns = << >>))
           => (~ret.raised /\ ret.value = << >>)

\* C6: with a diarization that is not None, align never raises for a chunk with no
\* 'timestamp', fewer than two timestamp values or no start value: it returns
\* what it returns for the list without those chunks.
C6_MalformedChunksSkipped ==
    (pc = "aligned" /\ diarization.present)
        => /\ ~ret.raised
           /\ ret = Align(aligner, Keep(timestamps, HasStart), diarization)

\* C7: no aligner exists, and no align call runs, with an overlap_threshold
\* outside [0, 1].
C7_ThresholdInRange ==
    (pc \in {"ready", "aligned"})
        => /\ 0 <= aligner.overlap_threshold.num
           /\ aligner.overlap_threshold.num <= aligner.overlap_threshold.den

\* C9 as stated: for chunks in non-decreasing order of start, consecutive output
\* segments (a, b) have a.start < b.start and b.start >= a.end.
C9_StrictlyOrderedNoOverlap ==
    (Returned /\ SortedByStart)
        => \A k \in 1..(Len(ret.value) - 1) :
               /\ ret.value[k][2] < ret.value[k + 1][2]
               /\ ret.value[k + 1][2] >= ret.value[k][3]

\* C9 as amended: for chunks in non-decreasing order of start, consecutive output
\* segments (a, b) have a.start <= b.start; they have a.start < b.start and
\* b.start >= a.end when, in addition, no chunk starts before the end of the
\* chunk before it.
C9_OrderedByStart ==
    (Returned /\ SortedByStart)
        => \A k \in 1..(Len(ret.value) - 1) :
               /\ ret.value[k][2] <= ret.value[k + 1][2]
               /\ ChunksDoNotOverlap
                     => /\ ret.value[k][2] < ret.value[k + 1][2]
                        /\ ret.value[k + 1][2] >= ret.value[k][3]

\* C9 witness: two output segments from ordered chunks, the second starting
\* before the first ends
C9_Witness ==
    /\ Returned
    /\ SortedByStart
    /\ Len(ret.value) = 2
    /\ ret.value[1][2] < ret.value[2][2]
    /\ ret.value[2][2] < ret.value[1][3]

\* C10: for chunks in non-decreasing order of start, every segment align returns
\* has a non-empty text with no whitespace at either end, and end > start; and
\* the chunks whose text is empty or whitespace contribute nothing.
C10_TextTrimmedSpanPositive ==
    (Returned /\ SortedByStart)
        => /\ \A k \in 1..Len(ret.value) :
                  LET text == ret.value[k][4]
                  IN  /\ text # << >>
                      /\ text[1] \notin Whitespace
                      /\ text[Len(text)] \notin Whitespace
                      /\ ret.value[k][3] > ret.value[k][2]
           /\ ret = Align(aligner, Keep(timestamps, HasWords), diarization)

\* C10 witness: a whitespace-only chunk and a chunk given with surrounding
\* whitespace, the second one alone in the output
C10_Witness ==
    /\ Returned
    /\ SortedByStart
    /\ Len(timestamps) = 2
    /\ ~HasWords(timestamps[1])
    /\ HasStart(timestamps[1])
    /\ timestamps[1].timestamp[2] > timestamps[1].timestamp[1]
    /\ timestamps[2].text = <<" ", "a", " ">>
    /\ Len(ret.value) = 1
    /\ ret.value[1][4] = <<"a">>

----------------------------------------------------------------------------
(* Labels and resolved ends (Spec) *)

\* The turn and the span [st, en] have an intersection of positive length
PositiveOverlap(turn, st, en) == Min(turn.end, en) > Max(turn.start, st)

\* The segment starts at a chunk that has a start and words, and a turn carrying
\* the segment's label overlaps that chunk
FirstChunkOverlapsTurnOf(seg) ==
    \E i \in 1..Len(timestamps) :
        LET chunk == timestamps[i]
        IN  /\ HasStart(chunk)
            /\ HasWords(chunk)
            /\ chunk.timestamp[1] = seg[2]
            /\ \E k \in 1..Len(diarization.turns) :
                   /\ diarization.turns[k].speaker = seg[1]
                   /\ PositiveOverlap(diarization.turns[k], chunk.timestamp[1],
                                      ResolvedEnd(chunk))

\* C11: the speaker of every segment align returns is the label of a diarization
\* turn of the input that has positive overlap with the segment's first chunk;
\* align never outputs a label that no turn carries.
C11_SpeakerFromOverlappingTurn ==
    Returned
        => \A k \in 1..Len(ret.value) :
               /\ ret.value[k][1] \in {diarization.turns[j].speaker :
                                           j \in 1..Len(diarization.turns)}
               /\ FirstChunkOverlapsTurnOf(ret.value[k])

\* C11 witness: two turns of different speakers, a chunk overlapping only one of
\* them, and one segment returned under that speaker's label
C11_Witness ==
    /\ Returned
    /\ Len(diarization.turns) = 2
    /\ diarization.turns[1].speaker # diarization.turns[2].speaker
    /\ Len(timestamps) = 1
    /\ HasStart(timestamps[1])
    /\ timestamps[1].timestamp[2] # NoTime
    /\ ~PositiveOverlap(diarization.turns[1], timestamps[1].timestamp[1],
                        timestamps[1].timestamp[2])
    /\ Len(ret.value) = 1
    /\ ret.value[1][1] = diarization.turns[2].speaker

\* The maximum end over the turns, 0 when there is none
MaxTurnEnd(turns) ==
    IF turns = << >> THEN 0
    ELSE CHOOSE m \in {turns[k].end : k \in 1..Len(turns)} :
             \A k \in 1..Len(turns) : m >= turns[k].end

\* The chunk has two timestamp values, the second one None
EndAbsent(chunk) ==
    /\ "timestamp" \in chunk.keys
    /\ Len(chunk.timestamp) >= 2
    /\ chunk.timestamp[2] = NoTime

\* The chunks, an absent end replaced by the maximum end over the turns
WithEndsResolved(chunks, turns) ==
    [i \in 1..Len(chunks) |->
        IF EndAbsent(chunks[i])
        THEN [chunks[i] EXCEPT !.timestamp = <<chunks[i].timestamp[1], MaxTurnEnd(turns)>>]
        ELSE chunks[i]]

\* C12: a chunk whose end is absent is attributed and emitted as the chunk
\* from its start to the maximum end over all turns (0 when there are no turns);
\* a chunk whose end is present is emitted with its own end.
C12_AbsentEndResolvedToLastTurnEnd ==
    /\ GetLastSegmentTime(<< >>) = 0
    /\ (pc = "aligned" /\ diarization.present)
           => /\ ret = Align(aligner, WithEndsResolved(timestamps, diarization.turns),
                             diarization)
              /\ (~ret.raised /\ Len(timestamps) = 1 /\ Len(ret.value) = 1)
                     => ret.value[1][3] = IF EndAbsent(timestamps[1])
                                          THEN MaxTurnEnd(diarization.turns)
                                          ELSE timestamps[1].timestamp[2]

\* C12 witness: one chunk with no end, two turns of which the first ends last,
\* and the chunk returned with that turn's end
C12_Witness ==
    /\ Returned
    /\ Len(timestamps) = 1
    /\ EndAbsent(timestamps[1])
    /\ Len(diarization.turns) = 2
    /\ diarization.turns[1].end > diarization.turns[2].end
    /\ Len(ret.value) = 1
    /\ ret.value[1][3] = diarization.turns[1].end
    /\ ret.value[1][3] > ret.value[1][2]

----------------------------------------------------------------------------
(* Repeated calls (SpecRepeat) *)

----------------------------------------------------------------------------
(* Frame and interference (SpecConc) *)

Finished(c) == calls[c].pc \in {"done", "raised"}

\* The call is in _merge_consecutive_segments
Merging(c) == calls[c].pc = "merge_loop"

\* C14: no step of align or of _merge_consecutive_segments changes the chunk
\* list, the diarization turns, the aligner's overlap_threshold and
\* min_segment_duration or, once the merger has it, the list of attributed
\* segments: what the merger absorbs goes to the accumulator only.
C14_InputsUnchanged ==
    [][/\ aligner' = aligner
       /\ \A c \in CallIds :
              /\ calls'[c].timestamps = calls[c].timestamps
              /\ calls'[c].diarization = calls[c].diarization
              /\ Merging(c) =>
                     calls'[c].speaker_transcriptions = calls[c].speaker_transcriptions]_vars

\* C14 witness: a call whose accumulator has absorbed the second attributed
\* segment, the list of attributed segments still holding both segments
C14_Witness ==
    \E c \in CallIds :
        /\ Merging(c)
        /\ calls[c].j = 3
        /\ Len(calls[c].speaker_transcriptions) = 2
        /\ calls[c].merged_segments = << >>
        /\ calls[c].current_group[3] = calls[c].speaker_transcriptions[2][3]
        /\ calls[c].current_group # calls[c].speaker_transcriptions[1]
        /\ calls[c].speaker_transcriptions[1][4] = <<"a">>

\* C15: under every interleaving of the steps of two invocations on the same
\* aligner, an invocation that has finished returns what align returns for its
\* chunks and its diarization when run alone.
C15_ConcurrentCallsAsAlone ==
    \A c \in CallIds :
        Finished(c) => calls[c].ret = Align(aligner, calls[c].timestamps,
                                            calls[c].diarization)

\* C15 witness: the second call has finished with two segments while the first,
\* given other chunks, holds one attributed segment and has a chunk left
C15_Witness ==
    /\ Finished("second")
    /\ Len(calls["second"].ret.value) = 2
    /\ calls["first"].pc = "assign"
    /\ calls["first"].i = 2
    /\ Len(calls["first"].timestamps) = 2
    /\ Len(calls["first"].speaker_transcriptions) = 1
    /\ calls["first"].timestamps # calls["second"].timestamps
    /\ calls["first"].diarization # calls["second"].diarization

----------------------------------------------------------------------------
(* The minimum segment duration (Spec) *)

\* C16: every segment returned by align on an aligner constructed with
\* min_segment_duration = d lasts at least d: end - start >= d.
C16_MergedDurationAtLeastMinimum ==
    Returned
        => \A k \in 1..Len(ret.value) :
               ret.value[k][3] - ret.value[k][2] >= aligner.min_segment_duration

----------------------------------------------------------------------------
(* The handlers and process_audio_sync (SpecApp) *)

LoggingSetUp == world.log_level \in LoggingLevels

\* The argument is a dict with a non-empty echo_input
EchoInputGiven ==
    event.present /\ "echo_input" \in event.keys /\ event.echo_input # << >>

\* The argument is a dict with no echo_input or an empty one
EchoInputMissing == event.present /\ ~EchoInputGiven

\* lambda_handler's answer carries the dict process_audio_sync returned
CarriesResult == "status" \in ret.value.body.document.keys

\* The mapping of C17 on the answer lambda_handler returned
LambdaStatusMapping ==
    /\ ret.value.statusCode \in {200, 400, 500}
    /\ EchoInputMissing
          => /\ ret.value.statusCode = 400
             /\ "error" \in ret.value.body.document.keys
             /\ Contains(ret.value.body.document.error, "echo_input")
             /\ ~app.constructed
    /\ ~EchoInputMissing
          => /\ ret.value.statusCode = 200
                    <=> (CarriesResult /\ ret.value.body.document.status = "success")
             /\ ret.value.statusCode # 200 => ret.value.statusCode = 500

DefaultOutputDir == IF pc = "lambda_done" THEN <<"/tmp/results">> ELSE <<"/app/results">>

\* What the try block of the handler that ran came to
Tried == TryBlock(event, DefaultOutputDir, world).outcome

\* An exception raised inside the try block does not leave the handler:
\* lambda_handler answers 500 with an error text that ends with the exception's
\* message, kubernetes_handler returns the 'Processing failed' dict
ExceptionsConverted ==
    (pc \in {"lambda_done", "kubernetes_done"} /\ LoggingSetUp /\ Tried.raised)
        => /\ ~ret.raised
           /\ pc = "lambda_done"
                 => /\ ret.value.statusCode = 500
                    /\ ret.value.body.document.error
                           = <<"Internal server error: ">> \o Tried.message
           /\ pc = "kubernetes_done"
                 => ret.value = Error(<<"Processing failed: ">> \o Tried.message)

\* kubernetes_handler's answer to a request with no echo_input
KubernetesMissingInput ==
    /\ ~ret.raised
    /\ ret.value.status = "error"
    /\ Contains(ret.value.message, "echo_input")
    /\ ~app.constructed

Pipeline ==
    IF world.init_error # << >> \/ GetDownloader(event.echo_input, app.output_dir).raised
    THEN ReturnsNone
    ELSE Process(world, event.echo_input).outcome

PipelineGaveSegments ==
    ~Pipeline.raised /\ ~Pipeline.is_none /\ Pipeline.value # << >>

PipelineGaveNothing ==
    ~Pipeline.raised /\ (Pipeline.is_none \/ Pipeline.value = << >>)

PipelineRan == world.init_error = << >> /\ ~GetDownloader(event.echo_input, app.output_dir).raised

Attempted == ProcessAudio(NewApp(app.output_dir), event.echo_input,
                          TranscriptionOutput, world).outcome

\* C20: process_audio_sync never raises; an exception raised by process_audio is
\* returned as status 'error' with message 'Processing failed: <message>'.
C20_SyncNeverRaises ==
    (pc = "sync_done")
        => /\ ~ret.raised
           /\ Attempted.raised
                 => ret.value = Error(<<"Processing failed: ">> \o Attempted.message)

\* C20 witness: an unsupported URL, the ValueError of get_downloader returned as
\* a 'Processing failed' dict
C20_Witness ==
    /\ pc = "sync_done"
    /\ world.init_error = << >>
    /\ GetDownloader(event.echo_input, app.output_dir).raised
    /\ ~ret.raised
    /\ ret.value.status = "error"
    /\ ret.value.message = <<"Processing failed: ", "Unsupported URL format">>

----------------------------------------------------------------------------
(* The two handlers on the same request (SpecStandIn) *)

\* The dict decoded from a JSON body carries the fields of the dict returned,
\* with the same values, each segment tuple having become a 4-element list
SameFields(decoded, returned) ==
    /\ decoded.keys = returned.keys
    /\ decoded.status = returned.status
    /\ decoded.message = returned.message
    /\ "output_file" \in returned.keys => decoded.output_file = returned.output_file
    /\ "transcriptions" \in returned.keys
          => /\ Len(decoded.transcriptions) = Len(returned.transcriptions)
             /\ \A k \in 1..Len(returned.transcriptions) :
                    /\ decoded.transcriptions[k] = List(returned.transcriptions[k])
                    /\ Len(decoded.transcriptions[k].list) = 4

\* What kubernetes_handler gives for the request lambda_handler was given
FromKubernetes == KubernetesHandler(event, world).outcome

\* C21: for the same request and the same process_audio_sync result, the
\* JSON-decoded body of lambda_handler and the value returned by
\* kubernetes_handler carry the same fields with the same values, the segment
\* tuples having become 4-element lists, for success and error results alike.
C21_HandlersCarrySameFields ==
    (pc = "lambda_done" /\ LoggingSetUp /\ EchoInputGiven)
        => /\ ~ret.raised
           /\ ~FromKubernetes.raised
           /\ SameFields(JsonLoads(ret.value.body), FromKubernetes.value)

\* C21 witness: a success result of two segments, answered by lambda_handler
C21_Witness ==
    /\ pc = "lambda_done"
    /\ LoggingSetUp
    /\ EchoInputGiven
    /\ ~ret.raised
    /\ ret.value.statusCode = 200
    /\ Len(JsonLoads(ret.value.body).transcriptions) = 2
    /\ JsonLoads(ret.value.body).transcriptions[2] = List(<<"B", 1, MaxTime, <<"b">>>>)

----------------------------------------------------------------------------
(* process_audio and what the orchestrator returned (SpecStandIn) *)

\* process_audio has called the orchestrator and the orchestrator has returned
OrchestratorReturned ==
    /\ world.stand_in = "AudioProcessingOrchestrator"
    /\ world.init_error = << >>
    /\ ~GetDownloader(event.echo_input, app.output_dir).raised
    /\ ~world.extracted.raised

ReturnedSegments ==
    OrchestratorReturned /\ ~world.extracted.is_none /\ world.extracted.value # << >>

\* save_data was called once, with the requested file name and the list
SavedOnce == app.saved = <<<<event.transcription_output, world.extracted.value>>>>

\* C22: process_audio returns the orchestrator's list unchanged and calls
\* save_data exactly once, with the requested file name and that list, if and
\* only if the orchestrator returned a non-empty list; when the orchestrator
\* returned None or the empty list it returns None and save_data is not called.
C22_SavedOnceIffSegments ==
    (pc = "audio_done")
        => /\ ReturnedSegments
                 <=> /\ ~ret.raised /\ ~ret.is_none
                     /\ ret.value = world.extracted.value
                     /\ SavedOnce
           /\ ~ReturnedSegments => app.saved = << >>
           /\ (OrchestratorReturned /\ ~ReturnedSegments) => ret = ReturnsNone

\* C22 witness: the orchestrator returned two segments, process_audio returned
\* them and saved them once under the name it was given
C22_Witness ==
    /\ pc = "audio_done"
    /\ ReturnedSegments
    /\ Len(world.extracted.value) = 2
    /\ ret = Returns(world.extracted.value)
    /\ event.transcription_output = <<"output.json">>
    /\ SavedOnce

----------------------------------------------------------------------------
(* The HTTP application (SpecStandIn) *)

\* The request answered last and the answer to it
LastRequest == calls[Len(calls)]
Answered == pc = "http_ready" /\ calls # << >>

\* What kubernetes_handler came to for the body posted last
Handled == Handle(Returns(event), world)

\* C23: /process answers 200 if and only if kubernetes_handler returned status
\* 'success', 400 for every other returned result, a missing echo_input and a
\* processing error included, and 500 with status 'error' when handling the
\* request raises, as for a body that is not JSON; /health answers 200 with
\* status 'healthy' whatever was posted to /process before.
C23_HttpStatusCodes ==
    /\ (Answered /\ LastRequest.route = "/process" /\ ~LastRequest.parsable)
          => /\ ret.value.statusCode = 500
             /\ JsonLoads(ret.value.body).status = "error"
    /\ (Answered /\ LastRequest.route = "/process" /\ LastRequest.parsable)
          => IF Handled.raised
             THEN /\ ret.value.statusCode = 500
                  /\ JsonLoads(ret.value.body).status = "error"
             ELSE /\ ret.value.statusCode = 200 <=> Handled.value.status = "success"
                  /\ ret.value.statusCode # 200 => ret.value.statusCode = 400
                  /\ ret.value.body = JsonDumps(Handled.value)
    /\ (Answered /\ LastRequest.route = "/health")
          => /\ ret.value.statusCode = 200
             /\ JsonLoads(ret.value.body).status = "healthy"

\* C23 witness: a /process request with no echo_input answered 400, after a
\* /process request; the next state of the same application answers /health
C23_Witness ==
    /\ Answered
    /\ Len(calls) = 2
    /\ calls[1].route = "/process"
    /\ LastRequest.route = "/process"
    /\ LastRequest.parsable
    /\ EchoInputMissing
    /\ ret.value.statusCode = 400
    /\ Contains(JsonLoads(ret.value.body).message, "echo_input")

----------------------------------------------------------------------------
(* The choice of the downloader (SpecApp) *)

NamesYouTube == Contains(event.echo_input, "youtube.com") \/ Contains(event.echo_input, "youtu.be")
EndsAsFeed == EndsWith(event.echo_input, ".xml")
EndsAsAudio == EndsWith(event.echo_input, ".mp3") \/ EndsWith(event.echo_input, ".wav")

\* The outcomes get_downloader came to, among the four
Outcomes ==
    {c \in {"YouTubeDownloader", "PodcastDownloader", "AudioDownloader"} :
         ~ret.raised /\ ret.value.class = c}
    \cup {c \in {"ValueError"} : ret.raised /\ ret.message = <<"Unsupported URL format">>}

\* C24: get_downloader returns a YouTubeDownloader for every URL containing
\* 'youtube.com' or 'youtu.be', whatever its end, otherwise a PodcastDownloader
\* for every URL ending with '.xml', otherwise an AudioDownloader for every URL
\* ending with '.mp3' or '.wav', and raises ValueError for every other URL; the
\* outcome is exactly one of the four and the downloader carries the output_dir.
C24_DownloaderByUrl ==
    (pc = "downloader_done")
        => /\ NamesYouTube => Outcomes = {"YouTubeDownloader"}
           /\ (~NamesYouTube /\ EndsAsFeed) => Outcomes = {"PodcastDownloader"}
           /\ (~NamesYouTube /\ ~EndsAsFeed /\ EndsAsAudio) => Outcomes = {"AudioDownloader"}
           /\ (~NamesYouTube /\ ~EndsAsFeed /\ ~EndsAsAudio) => Outcomes = {"ValueError"}
           /\ Cardinality(Outcomes) = 1
           /\ ~ret.raised => ret.value.output_dir = event.output_dir

\* C24 witness: a URL that names youtu.be and ends with .xml, for which the
\* YouTubeDownloader was returned, with the directory given
C24_Witness ==
    /\ pc = "downloader_done"
    /\ event.echo_input = <<"x", "youtu.be", ".xml">>
    /\ event.output_dir = <<"test_output">>
    /\ ret = Returns([class |-> "YouTubeDownloader", output_dir |-> <<"test_output">>])

----------------------------------------------------------------------------
(* The order of the stages of process (SpecApp) *)

\* The collaborators process invoked, the data saver left out
IsStage(c) == c # "save_data"
Stages == SelectSeq(calls, IsStage)

Invocations(c) == Cardinality({k \in 1..Len(calls) : calls[k] = c})

\* C25: process invokes download, transcribe, diarize, align in that order, each
\* at most once; when download gives no path it returns None and invokes
\* neither the transcriber, the diarizer, the aligner nor the data saver; when
\* the diarizer returns None it returns the empty list and does not raise.
C25_StagesInOrder ==
    (pc = "process_done")
        => /\ Stages \in {<<"download">>, <<"download", "transcribe", "diarize", "align">>}
           /\ \A c \in {"download", "transcribe", "diarize", "align"} : Invocations(c) <= 1
           /\ ~world.downloaded => (ret = ReturnsNone /\ calls = <<"download">>)
           /\ (world.downloaded /\ ~world.diarization.present) => ret = Returns(<< >>)

\* C25 witness: the download gave a path, the transcriber a chunk, the diarizer
\* None, and process returned the empty list after the four stages
C25_Witness ==
    /\ pc = "process_done"
    /\ world.downloaded
    /\ world.timestamps # << >>
    /\ ~world.diarization.present
    /\ Stages = <<"download", "transcribe", "diarize", "align">>
    /\ ret = Returns(<< >>)

----------------------------------------------------------------------------
(* The application composed with the real orchestrator (SpecApp) *)

\* The method of the orchestrator that process_audio calls
MethodCalled == "extract_and_transcribe"

\* C26: when the application is composed with the real orchestrator and the
\* download, the transcription, the diarization and the alignment all succeed
\* with at least one segment, process_audio reaches the aligner through a method
\* the orchestrator provides and process_audio_sync returns status 'success'
\* with exactly the aligner's segments.
C26_RealCompositionSucceeds ==
    (pc = "sync_done" /\ world.stand_in = "none" /\ PipelineRan /\ PipelineGaveSegments)
        => /\ MethodCalled \in OrchestratorMethods
           /\ ~ret.raised
           /\ ret.value.status = "success"
           /\ ret.value.transcriptions = Pipeline.value

----------------------------------------------------------------------------
(* The output of the merge is merged as far as it can be (SpecMerge) *)

Merged == pc = "merge_done"

\* The gap between two segments that follow each other in the output
GapAfter(k) == Abs(ret.value[k + 1][2] - ret.value[k][3])
SpeakerKept(k) == ret.value[k + 1][1] = ret.value[k][1]

\* Merging the output again gives the output
MergedAgainUnchanged == MergeConsecutiveSegments(ret.value) = ret.value

----------------------------------------------------------------------------
(* The text of the chunks in the output of align (SpecWords) *)

\* The speaker the chunk received, None when it received none
SpeakerOf(chunk) ==
    IF ~HasWords(chunk) \/ ~diarization.present THEN None
    ELSE FindDominantSpeaker(chunk.timestamp[1], ResolvedEnd(chunk), diarization.turns,
                             aligner.overlap_threshold).value

ReceivedSpeaker(chunk) == SpeakerOf(chunk) # None

\* texts joined with single spaces
RECURSIVE Join(_)
Join(texts) ==
    IF texts = << >> THEN << >>
    ELSE IF Len(texts) = 1 THEN texts[1]
    ELSE texts[1] \o <<" ">> \o Join(Tail(texts))

\* The trimmed texts of the chunks that received a speaker, in input order
ReceivedTexts ==
    LET received == SelectSeq(timestamps, ReceivedSpeaker)
    IN  [k \in 1..Len(received) |-> Strip(received[k].text)]

OutputTexts == [m \in 1..Len(ret.value) |-> ret.value[m][4]]

\* The output segments that hold the word of the k-th chunk
SegmentsHolding(k) == {m \in 1..Len(ret.value) : Contains(ret.value[m][4], Letters[k])}

\* C28: align neither loses, duplicates nor reorders attributed text: the texts
\* of the output segments joined with single spaces equal the trimmed texts of
\* the chunks that received a speaker, in input order, joined with single
\* spaces; the text of each such chunk is in exactly one output segment, which
\* has the chunk's speaker; there are no more segments than such chunks.
C28_AttributedTextKept ==
    Returned
        => /\ Join(OutputTexts) = Join(ReceivedTexts)
           /\ \A k \in 1..Len(timestamps) :
                  IF ReceivedSpeaker(timestamps[k])
                  THEN /\ Cardinality(SegmentsHolding(k)) = 1
                       /\ \A m \in SegmentsHolding(k) :
                              ret.value[m][1] = SpeakerOf(timestamps[k])
                  ELSE SegmentsHolding(k) = {}
           /\ Len(ret.value) <= Len(ReceivedTexts)

\* C28 witness: two chunks with words of one speaker, merged into one segment
\* that holds the two words in input order
C28_Witness ==
    /\ Returned
    /\ Len(timestamps) = 2
    /\ \A k \in 1..2 : ReceivedSpeaker(timestamps[k])
    /\ Len(ret.value) = 1
    /\ ret.value[1][4] = <<"a", " ", "b">>

----------------------------------------------------------------------------
(* The order in which the turns are enumerated (SpecWords) *)

\* The enumerations of the turns of the diarization: each turn once, in any order
Enumerations ==
    LET n == Len(diarization.turns)
        given == {diarization.turns[k] : k \in 1..n}
    IN  {p \in [1..n -> given] : {p[k] : k \in 1..n} = given}

\* C29: the output of align does not depend on the order in which the turns of
\* the diarization are enumerated: for every chunk list and every two
\* enumerations of the same turns align returns the same segments, also when two
\* speakers have exactly equal overlap with a chunk.
C29_EnumerationOrderIrrelevant ==
    (Returned /\ diarization.present)
        => \A p \in Enumerations :
               Align(aligner, timestamps, Diarization(p)) = ret

----------------------------------------------------------------------------
(* The span of a merged segment and the chunks absorbed into it (SpecWords) *)

\* The chunks come in non-decreasing order of start
StartsInOrder ==
    \A k \in 1..(Len(timestamps) - 1) :
        timestamps[k].timestamp[1] <= timestamps[k + 1].timestamp[1]

\* The chunks absorbed into the m-th output segment: those whose word it holds
AbsorbedInto(m) == {k \in 1..Len(timestamps) : Contains(ret.value[m][4], Letters[k])}

LastAbsorbedInto(m) == CHOOSE k \in AbsorbedInto(m) : \A j \in AbsorbedInto(m) : j <= k

\* C30 as stated: for chunks given in non-decreasing order of start, the span of
\* every merged segment returned by align contains the span of every chunk
\* absorbed into it: merged.start <= chunk.start and chunk.end <= merged.end.
C30_SpanContainsAbsorbedChunks ==
    (Returned /\ StartsInOrder)
        => \A m \in 1..Len(ret.value) : \A k \in AbsorbedInto(m) :
               /\ ret.value[m][2] <= timestamps[k].timestamp[1]
               /\ ResolvedEnd(timestamps[k]) <= ret.value[m][3]

\* C30 as amended: for chunks given in non-decreasing order of start, every
\* merged segment starts no later than each chunk absorbed into it and ends
\* where the chunk absorbed last ends.
C30_EndOfLastAbsorbedChunk ==
    (Returned /\ StartsInOrder)
        => \A m \in 1..Len(ret.value) :
               /\ AbsorbedInto(m) # {}
               /\ \A k \in AbsorbedInto(m) : ret.value[m][2] <= timestamps[k].timestamp[1]
               /\ ret.value[m][3] = ResolvedEnd(timestamps[LastAbsorbedInto(m)])

\* C30 witness: two chunks in order of start merged into one segment, the
\* second ending before the first does, and the segment ending with the second
C30_Witness ==
    /\ Returned
    /\ StartsInOrder
    /\ Len(timestamps) = 2
    /\ Len(ret.value) = 1
    /\ AbsorbedInto(1) = {1, 2}
    /\ ResolvedEnd(timestamps[2]) < ResolvedEnd(timestamps[1])
    /\ ret.value[1][3] = ResolvedEnd(timestamps[2])

====
